---- MODULE Spec2Model ----
(***************************************************************************)
(* A model of praydog/jwt (src/jwt/jwt.cpp): the base64url codec, the HMAC *)
(* and PEM signature backends, encode and decode.                          *)
(*                                                                         *)
(* Text and byte strings are sequences of byte values 0..255.  Algorithm   *)
(* names and keys are written as TLA+ strings and turned into bytes by     *)
(* Bytes where the code hands them to a byte-level operation.              *)
(*                                                                         *)
(* External collaborators are modelled by their contract:                  *)
(*  - OpenSSL's base64 BIO is computed bit by bit (Base64Std, DecodeBlock).*)
(*  - HMAC and the RSA / ECDSA digest-sign are ideal: the tag is a byte     *)
(*    string determined injectively by (scheme, digest, key, message), so  *)
(*    two tags are equal only when all of these are equal.  ECDSA is       *)
(*    randomised: a signature also carries a nonce.                        *)
(*  - nlohmann::json dump/parse are computed on a finite universe of JSON  *)
(*    values; any text that is not the dump of one of them is a parse      *)
(*    error (an exception).                                                *)
(***************************************************************************)
EXTENDS Integers, Sequences, FiniteSets, TLC

VARIABLES
    pc,         \* position of the one call in flight
    payload,    \* encode: the payload argument (a JSON value)
    encKey,     \* encode: the key argument
    encAlg,     \* encode: the alg argument
    nonce,      \* encode: the randomness the ECDSA backend drew
    clean,      \* encode: TRUE when no b64encode call read past its buffer
    token,      \* the compact token: encode's result, decode's jwt argument
    origin,     \* where the token came from: "encode", "tamper", "forge", "none"
    decKey,     \* decode: the key argument
    accepted,   \* decode: the alg argument (the accepted set)
    theAlg,     \* decode: the alg the header declares
    verified,   \* decode: the signature check ran and passed
    trace,      \* the operations the call in flight performed so far, in order
    result,     \* decode: what the call returned
    b64in,      \* codec call: the byte sequence given to b64encode
    b64out,     \* codec call: the outcome of b64encode and of decoding it back
    pem,        \* one signPEM or verifyPEM call, step by step, and its handles
    calls       \* the calls of encode and decode that run in parallel

\* The variables of the one call followed from encode to decode.
jwtVars == <<pc, payload, encKey, encAlg, nonce, clean, token, origin, decKey,
             accepted, theAlg, verified, trace, result, b64in, b64out>>

vars == <<jwtVars, pem, calls>>

----------------------------------------------------------------------------
(* Bounds of the model *)

\* Longest run of uninitialised non-zero bytes one b64encode call reads
\* after the end of the BIO's buffer.
MaxJunk == 1

\* Longest byte sequence given to the codec on its own.
MaxBytes == 3

----------------------------------------------------------------------------
(* Text *)

\* The printable ASCII characters 32..95 and 97..126, in code order.
CharsLow == " !\"#$%&'()*+,-./0123456789:;<=>?@ABCDEFGHIJKLMNOPQRSTUVWXYZ[\\]^_"
CharsHigh == "abcdefghijklmnopqrstuvwxyz{|}~"

\* The byte value of a one-character string.
Ord(c) ==
    IF \E i \in 1..Len(CharsLow) : SubSeq(CharsLow, i, i) = c
    THEN 31 + (CHOOSE i \in 1..Len(CharsLow) : SubSeq(CharsLow, i, i) = c)
    ELSE 96 + (CHOOSE i \in 1..Len(CharsHigh) : SubSeq(CharsHigh, i, i) = c)

\* The bytes of a string literal.
Bytes(s) == [i \in 1..Len(s) |-> Ord(SubSeq(s, i, i))]

\* string::find(needle) != npos, on strings.
Contains(s, needle) ==
    \E i \in 1..(Len(s) - Len(needle) + 1) :
        SubSeq(s, i, i + Len(needle) - 1) = needle

Dot == Ord(".")
Eq == Ord("=")
Plus == Ord("+")
Minus == Ord("-")
Slash == Ord("/")
Underscore == Ord("_")

\* detail::replaceAll for one-character from and to.
replaceAll(str, from, to) ==
    [i \in 1..Len(str) |-> IF str[i] = from THEN to ELSE str[i]]

\* string::find_first_of(ch, from): the first index >= from holding ch, 0 for npos.
\* Indices are 1-based.
FindFirstOf(str, ch, from) ==
    IF \E i \in from..Len(str) : str[i] = ch
    THEN CHOOSE i \in from..Len(str) :
            str[i] = ch /\ \A j \in from..(i - 1) : str[j] # ch
    ELSE 0

\* s.substr(0, s.find_last_not_of("=") + 1)
StripTrailingEq(s) ==
    IF \E i \in 1..Len(s) : s[i] # Eq
    THEN SubSeq(s, 1, CHOOSE i \in 1..Len(s) :
                        s[i] # Eq /\ \A j \in (i + 1)..Len(s) : s[j] = Eq)
    ELSE <<>>

\* What a C string read (strlen, string{char*}, c_str()) sees: up to the first NUL.
CStr(s) ==
    IF \E i \in 1..Len(s) : s[i] = 0
    THEN SubSeq(s, 1, (CHOOSE i \in 1..Len(s) :
                        s[i] = 0 /\ \A j \in 1..(i - 1) : s[j] # 0) - 1)
    ELSE s

Zeros(n) == [i \in 1..n |-> 0]

----------------------------------------------------------------------------
(* Base64, as OpenSSL's BIO_f_base64 computes it with BIO_FLAGS_BASE64_NO_NL *)

B64Alphabet == Bytes("ABCDEFGHIJKLMNOPQRSTUVWXYZabcdefghijklmnopqrstuvwxyz0123456789+/")

\* conv_ascii2bin: the 6-bit value of a base64 character; '=' converts to 0.
B64Value(ch) ==
    IF ch = Eq THEN 0
    ELSE (CHOOSE i \in 1..64 : B64Alphabet[i] = ch) - 1

IsB64Char(ch) == ch = Eq \/ \E i \in 1..64 : B64Alphabet[i] = ch

\* EVP_EncodeBlock: padded standard base64 of a byte sequence.
RECURSIVE Base64Std(_)
Base64Std(data) ==
    IF Len(data) = 0 THEN <<>>
    ELSE IF Len(data) = 1 THEN
        << B64Alphabet[(data[1] \div 4) + 1],
           B64Alphabet[((data[1] % 4) * 16) + 1], Eq, Eq >>
    ELSE IF Len(data) = 2 THEN
        << B64Alphabet[(data[1] \div 4) + 1],
           B64Alphabet[((data[1] % 4) * 16 + (data[2] \div 16)) + 1],
           B64Alphabet[((data[2] % 16) * 4) + 1], Eq >>
    ELSE
        << B64Alphabet[(data[1] \div 4) + 1],
           B64Alphabet[((data[1] % 4) * 16 + (data[2] \div 16)) + 1],
           B64Alphabet[((data[2] % 16) * 4 + (data[3] \div 64)) + 1],
           B64Alphabet[(data[3] % 64) + 1] >>
        \o Base64Std(SubSeq(data, 4, Len(data)))

\* EVP_DecodeBlock: three bytes for every four characters, the low bits of a
\* last partial group dropped without being looked at.
RECURSIVE DecodeBlock(_)
DecodeBlock(str) ==
    IF Len(str) < 4 THEN <<>>
    ELSE LET a == B64Value(str[1])
             b == B64Value(str[2])
             c == B64Value(str[3])
             d == B64Value(str[4])
         IN  << a * 4 + (b \div 16),
                (b % 16) * 16 + (c \div 4),
                (c % 4) * 64 + d >>
             \o DecodeBlock(SubSeq(str, 5, Len(str)))

\* BIO_read through the base64 filter: nothing when a character is outside
\* the alphabet, otherwise the decoded block less one byte for each of the
\* (at most two) '=' that end it.
BIORead(str) ==
    IF \E i \in 1..Len(str) : ~IsB64Char(str[i]) THEN <<>>
    ELSE LET raw == DecodeBlock(str)
             n == (Len(str) \div 4) * 4
             cut == IF n > 2 /\ str[n] = Eq
                    THEN (IF str[n - 1] = Eq THEN 2 ELSE 1)
                    ELSE 0
         IN  SubSeq(raw, 1, Len(raw) - cut)

\* The non-zero bytes one read of `string s{ buf->data }` picks up after the
\* buffer's last written byte: the BUF_MEM is not NUL-terminated, and what
\* follows it is uninitialised.
JunkTails == UNION {[1..n -> {Ord("x")}] : n \in 0..MaxJunk}

\* detail::b64encode of a non-empty buffer, with the tail that the
\* unterminated read appended.
b64encode(data, junk) ==
    LET s == Base64Std(data) \o junk
    IN  replaceAll(replaceAll(StripTrailingEq(s), Plus, Minus),
                   Slash, Underscore)

\* detail::b64decode
b64decode(text) ==
    LET str == replaceAll(replaceAll(text, Minus, Plus), Underscore, Slash)
        padding == CASE Len(str) % 4 = 2 -> 2
                     [] Len(str) % 4 = 3 -> 1
                     [] OTHER -> 0
        padded == str \o [i \in 1..padding |-> Eq]
        len == (Len(padded) * 3) \div 4 - padding
        got == BIORead(CStr(padded))
    IN  IF Len(str) % 4 = 1 THEN <<>>
        ELSE [i \in 1..len |-> IF i <= Len(got) THEN got[i] ELSE 0]

----------------------------------------------------------------------------
(* JSON values (nlohmann::json), on a finite universe *)

JNull == [t |-> "null"]
JNum(n) == [t |-> "num", v |-> n]
JStr(s) == [t |-> "str", v |-> s]
\* An object is the sequence of its <<key, value>> members in key order
\* (nlohmann::json keeps an object in a std::map).
JObj(members) == [t |-> "obj", v |-> members]

\* The header that encode builds.
MakeHeader(alg) == JObj(<< <<"alg", JStr(alg)>>, <<"typ", JStr("JWT")>> >>)

\* The algorithm names the registry knows, and names it does not.
HmacNames == {"HS256", "HS384", "HS512"}
RsaNames == {"RS256", "RS384", "RS512"}
EcNames == {"ES256", "ES384", "ES512"}
PemNames == RsaNames \cup EcNames
SupportedNames == HmacNames \cup PemNames
UnknownNames == {"HK256", "hs256", "HS999", "None"}
DeclaredNames == SupportedNames \cup {"none"} \cup UnknownNames

\* The payloads given to encode.
Payloads == { JObj(<< <<"a", JNum(1)>> >>), JNull }

\* Headers no encoder of this library writes: no alg member, an alg that is
\* not a string, and a header that is not an object.
HeaderNoAlg == JObj(<< <<"typ", JStr("JWT")>> >>)
HeaderNumAlg == JObj(<< <<"alg", JNum(1)>>, <<"typ", JStr("JWT")>> >>)
OddHeaders == {HeaderNoAlg, HeaderNumAlg, JNum(1)}

JsonUniverse == Payloads \cup {MakeHeader(a) : a \in DeclaredNames} \cup OddHeaders

\* json::dump(): the minimal text of a value.
RECURSIVE dump(_)
RECURSIVE dumpMembers(_)
dumpMembers(ms) ==
    IF Len(ms) = 0 THEN <<>>
    ELSE Bytes("\"") \o Bytes(ms[1][1]) \o Bytes("\":") \o dump(ms[1][2])
         \o (IF Len(ms) > 1 THEN Bytes(",") ELSE <<>>)
         \o dumpMembers(Tail(ms))
dump(j) ==
    CASE j.t = "null" -> Bytes("null")
      [] j.t = "num" -> <<Ord("0") + j.v>>
      [] j.t = "str" -> Bytes("\"") \o Bytes(j.v) \o Bytes("\"")
      [] j.t = "obj" -> Bytes("{") \o dumpMembers(j.v) \o Bytes("}")

DumpOf == [j \in JsonUniverse |-> dump(j)]

\* JSON white space around a value is skipped by the parser.
IsWs(b) == b \in {32, 9, 10, 13}
RECURSIVE TrimWs(_)
TrimWs(s) ==
    IF Len(s) = 0 THEN s
    ELSE IF IsWs(s[1]) THEN TrimWs(Tail(s))
    ELSE IF IsWs(s[Len(s)]) THEN TrimWs(SubSeq(s, 1, Len(s) - 1))
    ELSE s

\* json::parse(const char*): the value whose text this is, or a parse error,
\* which nlohmann::json reports by throwing.
ParseError == [t |-> "error"]
parse(text) ==
    LET s == TrimWs(CStr(text))
    IN  IF \E j \in JsonUniverse : DumpOf[j] = s
        THEN CHOOSE j \in JsonUniverse : DumpOf[j] = s
        ELSE ParseError

\* `const string& theAlg = header["alg"]`: the member's string, or a throw
\* when the header is not an object or alg is missing or not a string.
HasStringAlg(header) ==
    /\ header.t = "obj"
    /\ \E i \in 1..Len(header.v) :
            header.v[i][1] = "alg" /\ header.v[i][2].t = "str"
AlgOf(header) ==
    LET i == CHOOSE i \in 1..Len(header.v) : header.v[i][1] = "alg"
    IN  header.v[i][2].v

----------------------------------------------------------------------------
(* Keys and the signature backends *)

\* Key texts: no key, two shared secrets, and an RSA and an EC key pair in
\* PEM form (a short name stands for the PEM text).
Keys == {"", "secret", "wrong", "RSAPRIV1", "RSAPUB1", "ECPRIV1", "ECPUB1"}

NoKey == [type |-> "none", id |-> 0]

\* PEM_read_bio_PrivateKey: the parsed key, or none.
PrivateKey(key) ==
    CASE key = "RSAPRIV1" -> [type |-> "RSA", id |-> 1]
      [] key = "ECPRIV1" -> [type |-> "EC", id |-> 2]
      [] OTHER -> NoKey

\* PEM_read_bio_PUBKEY: the parsed key, or none.
PublicKey(key) ==
    CASE key = "RSAPUB1" -> [type |-> "RSA", id |-> 1]
      [] key = "ECPUB1" -> [type |-> "EC", id |-> 2]
      [] OTHER -> NoKey

\* The randomness an ECDSA signature is drawn with.
Nonces == {1, 2}

KeyWidth == CHOOSE n \in 0..64 :
                /\ \A k \in Keys : Len(k) <= n
                /\ \E k \in Keys : Len(k) = n

\* HmacDigest with SHA-256 as the digest of every other name.
HmacDigestDefaulting(alg) ==
    CASE alg = "HS384" -> "sha384"
      [] alg = "HS512" -> "sha512"
      [] OTHER -> "sha256"

\* The EVP_MD a name selects in signHMAC; "null" leaves evp unset.
HmacDigest(alg) ==
    CASE alg = "HS256" -> "sha256"
      [] alg = "HS384" -> "sha384"
      [] alg = "HS512" -> "sha512"
      [] OTHER -> "null"

\* The EVP_MD a name selects in signPEM and verifyPEM.
PemDigest(alg) ==
    CASE alg \in {"RS256", "ES256"} -> "sha256"
      [] alg \in {"RS384", "ES384"} -> "sha384"
      [] alg \in {"RS512", "ES512"} -> "sha512"
      [] OTHER -> "null"

DigestCode(evp) ==
    CASE evp = "sha256" -> 1
      [] evp = "sha384" -> 2
      [] evp = "sha512" -> 3

\* HMAC(evp, key, str): an ideal MAC, of the same length for every key.
HMAC(evp, key, str) ==
    <<Ord("H"), DigestCode(evp)>>
    \o Bytes(key) \o Zeros(KeyWidth - Len(key)) \o str

\* EVP_DigestSign* with a parsed private key: the key's type, not the
\* algorithm name, selects RSA or ECDSA.
DigestSign(pkey, evp, str, n) ==
    IF pkey.type = "RSA"
    THEN <<Ord("R"), pkey.id, DigestCode(evp)>> \o str
    ELSE <<Ord("E"), pkey.id, DigestCode(evp), n>> \o str

\* EVP_DigestVerify* with a parsed public key.
DigestVerify(pkey, evp, str, sig) ==
    IF pkey.type = "RSA"
    THEN sig = DigestSign(pkey, evp, str, 0)
    ELSE \E n \in Nonces : sig = DigestSign(pkey, evp, str, n)

signHMAC(str, key, alg, junk) ==
    IF HmacDigest(alg) = "null" THEN <<>>
    ELSE b64encode(HMAC(HmacDigest(alg), key, str), junk)

signPEM(str, key, alg, n, junk) ==
    IF PemDigest(alg) = "null" THEN <<>>
    ELSE IF PrivateKey(key) = NoKey THEN <<>>
    ELSE b64encode(DigestSign(PrivateKey(key), PemDigest(alg), str, n), junk)

verifyPEM(str, b64sig, key, alg) ==
    IF PemDigest(alg) = "null" THEN FALSE
    ELSE IF b64decode(b64sig) = <<>> THEN FALSE
    ELSE IF PublicKey(key) = NoKey THEN FALSE
    ELSE DigestVerify(PublicKey(key), PemDigest(alg), str, b64decode(b64sig))

----------------------------------------------------------------------------
(* encode *)

\* The alg the header carries: HS256 when the argument is empty.
HeaderAlg(alg) == IF alg = "" THEN "HS256" ELSE alg

\* The backend encode and decode dispatch a name to.
Backend(alg) ==
    IF alg = "none" THEN "none"
    ELSE IF Contains(alg, "HS") THEN "hmac"
    ELSE "pem"

\* `theAlg != "none" && signature.empty()`: encode gives up.
EncodeFails(alg, signature) == alg # "none" /\ signature = <<>>

\* jwt::encode.  j is the tail each of the three b64encode calls picked up
\* (header, payload, signature), n the ECDSA randomness.
encode(p, key, alg, j, n) ==
    LET header == MakeHeader(HeaderAlg(alg))
        encodedHeader == b64encode(dump(header), j[1])
        encodedPayload == b64encode(dump(p), j[2])
        encodedToken == encodedHeader \o <<Dot>> \o encodedPayload
        a == AlgOf(header)
        signature ==
            CASE Backend(a) = "none" -> <<>>
              [] Backend(a) = "hmac" -> signHMAC(encodedToken, key, a, j[3])
              [] Backend(a) = "pem" -> signPEM(encodedToken, key, a, n, j[3])
    IN  IF EncodeFails(a, signature) THEN <<>>
        ELSE encodedToken \o <<Dot>> \o signature

\* Lines 290-298: the signing operations encode invokes, in order.
encodeOps(alg) ==
    CASE Backend(HeaderAlg(alg)) = "none" -> <<>>
      [] Backend(HeaderAlg(alg)) = "hmac" -> <<"signHMAC">>
      [] Backend(HeaderAlg(alg)) = "pem" -> <<"signPEM">>

----------------------------------------------------------------------------
(* decode, step by step *)

\* What a call returned: a JSON value (json{} is null), or an exception that
\* left the call.
Returned(j) == [kind |-> "return", val |-> j]
Thrown == [kind |-> "throw", val |-> JNull]
Pending == [kind |-> "pending", val |-> JNull]

\* Lines 313-318: the positions of the first two periods (0 for npos; the
\* search for the second starts at firstPeriod + 1, which wraps to the start
\* of the text when the first search found nothing).
FirstPeriod(jwt) == FindFirstOf(jwt, Dot, 1)
SecondPeriod(jwt) == FindFirstOf(jwt, Dot, FirstPeriod(jwt) + 1)

\* LooksLikeJwt asking for one period only.
LooksLikeJwtOnePeriod(jwt) == jwt # <<>> /\ FirstPeriod(jwt) # 0

\* Lines 308-318: the text is not empty and holds two periods.
LooksLikeJwt(jwt) ==
    jwt # <<>> /\ FirstPeriod(jwt) # 0 /\ SecondPeriod(jwt) # 0

HeaderSegment(jwt) == SubSeq(jwt, 1, FirstPeriod(jwt) - 1)
PayloadSegment(jwt) == SubSeq(jwt, FirstPeriod(jwt) + 1, SecondPeriod(jwt) - 1)
SignedPart(jwt) == SubSeq(jwt, 1, SecondPeriod(jwt) - 1)
SignatureSegment(jwt) == SubSeq(jwt, SecondPeriod(jwt) + 1, Len(jwt))

\* NoneWithKey with the key test inverted.
NoneWithKeyInverted(a, key) == a = "none" /\ key = ""

\* `theAlg == "none" && !key.empty()`
NoneWithKey(a, key) == a = "none" /\ key # ""

\* NotAccepted with the emptiness test inverted.
NotAcceptedInverted(a, alg) == a \notin alg /\ alg = {}

\* `alg.count(theAlg) == 0 && !alg.empty()`
NotAccepted(a, alg) == a \notin alg /\ alg # {}

\* HmacRejects without the test for an empty recomputed signature.
HmacRejectsCompareOnly(signature, calculated) == signature # calculated

\* `signature != calculatedSignature || calculatedSignature.empty()`
HmacRejects(signature, calculated) ==
    signature # calculated \/ calculated = <<>>

\* AfterPolicy without the return on a rejection.
AfterPolicyFallThrough(rejected) == "verify"

\* Where decode goes after the two gates: out with json{}, or on to the
\* signature check.
AfterPolicy(rejected) == IF rejected THEN "done" ELSE "verify"

\* AfterVerify without the return on a failed check.
AfterVerifyFallThrough(ok) == "payload"

\* Where decode goes after the signature check: on to the payload, or out
\* with json{}.
AfterVerify(ok) == IF ok THEN "payload" ELSE "done"

----------------------------------------------------------------------------
(* The calls *)

AlgArgs == DeclaredNames \cup {""}

\* The tails of the three b64encode calls of one encode; together they read
\* at most MaxJunk bytes past their buffers.
JunkSplits ==
    {j \in JunkTails \X JunkTails \X JunkTails :
        Len(j[1]) + Len(j[2]) + Len(j[3]) <= MaxJunk}

NoJunk == << <<>>, <<>>, <<>> >>

\* The handles signPEM and verifyPEM acquire: the memory BIO over the key
\* text, the parsed key, the digest context.
Handles == {"bufkey", "pkey", "mdctx"}

\* A signPEM or verifyPEM call that has not returned.
PemPending == [kind |-> "pending", sig |-> <<>>, ok |-> FALSE]

\* No signPEM or verifyPEM call has been made.  acquired holds the handles
\* the call got (its non-null locals), onLeave the SCOPE_EXIT entries in
\* push order, freed how often each handle was released, leaked the handles
\* earlier calls left live.
PemIdle ==
    [pc |-> "idle", op |-> "none", key |-> "", alg |-> "", sig |-> <<>>,
     evp |-> "null", pkey |-> NoKey, acquired |-> {}, onLeave |-> <<>>,
     freed |-> [h \in Handles |-> 0], leaked |-> {}, out |-> PemPending]

\* The threads that call encode and decode in parallel.
Procs == {1, 2}

\* A thread that has made no call.  p, key and alg are the arguments of
\* encode, jwt, key and accepted those of decode; header, body and theAlg
\* are locals (encodedHeader, encodedPayload, theAlg); read holds the bytes
\* the call has read that are neither its arguments nor its locals; token
\* is what encode returned, out what decode returned.
CallIdle ==
    [pc |-> "idle", op |-> "none", p |-> JNull, key |-> "", alg |-> "",
     jwt |-> <<>>, accepted |-> {}, header |-> <<>>, body |-> <<>>,
     theAlg |-> "", read |-> <<>>, token |-> <<>>, out |-> Pending]

Init ==
    /\ pc = "idle"
    /\ payload = JNull
    /\ encKey = ""
    /\ encAlg = ""
    /\ nonce = 0
    /\ clean = TRUE
    /\ token = <<>>
    /\ origin = "none"
    /\ decKey = ""
    /\ accepted = {}
    /\ theAlg = ""
    /\ verified = FALSE
    /\ trace = <<>>
    /\ result = Pending
    /\ b64in = <<>>
    /\ b64out = [kind |-> "none", text |-> <<>>, bytes |-> <<>>]
    /\ pem = PemIdle
    /\ calls = [self \in Procs |-> CallIdle]

\* A caller runs encode(p, k, a).
Encode ==
    /\ pc = "idle"
    /\ \E p \in Payloads, k \in Keys, a \in AlgArgs, j \in JunkSplits :
        \E n \in (IF Backend(HeaderAlg(a)) = "pem" /\ PrivateKey(k).type = "EC"
                  THEN Nonces ELSE {0}) :
            /\ Backend(HeaderAlg(a)) = "none" => j[3] = <<>>
            /\ payload' = p
            /\ encKey' = k
            /\ encAlg' = a
            /\ nonce' = n
            /\ clean' = (j = NoJunk)
            /\ token' = encode(p, k, a, j, n)
            /\ trace' = encodeOps(a)
    /\ pc' = "encoded"
    /\ origin' = "encode"
    /\ UNCHANGED <<pem, calls>>
    /\ UNCHANGED <<decKey, accepted, theAlg, verified, result, b64in, b64out>>

\* The base64url alphabet, and the character whose 6-bit value differs from
\* ch in its lowest bit.
UrlAlphabet == replaceAll(replaceAll(B64Alphabet, Plus, Minus), Slash, Underscore)
FlipLowBit(ch) ==
    IF \E i \in 1..64 : UrlAlphabet[i] = ch
    THEN LET v == (CHOOSE i \in 1..64 : UrlAlphabet[i] = ch) - 1
         IN  UrlAlphabet[(IF v % 2 = 0 THEN v + 1 ELSE v - 1) + 1]
    ELSE Ord("A")

\* The signature the tests put in place of a real one.
InvalidSignature == Bytes("aW52YWxpZA")

\* What is done to the signature segment of a token: it is replaced by an
\* unrelated signature, or its first or its last character is changed.
TamperKinds == {"replace", "first", "last"}
Tampered(jwt, kind) ==
    LET sig == SignatureSegment(jwt)
        head == SubSeq(jwt, 1, SecondPeriod(jwt))
    IN  CASE kind = "replace" -> head \o InvalidSignature
          [] kind = "first" -> head \o <<FlipLowBit(sig[1])>> \o Tail(sig)
          [] kind = "last" ->
                head \o SubSeq(sig, 1, Len(sig) - 1) \o <<FlipLowBit(sig[Len(sig)])>>

\* Somebody changes the signature segment of an encoded token.
Tamper ==
    /\ pc = "encoded"
    /\ LooksLikeJwt(token)
    /\ \E kind \in TamperKinds :
        /\ kind \in {"first", "last"} => SignatureSegment(token) # <<>>
        /\ token' = Tampered(token, kind)
    /\ pc' = "tampered"
    /\ origin' = "tamper"
    /\ UNCHANGED <<pem, calls>>
    /\ UNCHANGED <<payload, encKey, encAlg, nonce, clean, decKey, accepted,
                   theAlg, verified, trace, result, b64in, b64out>>

\* Tokens written by hand rather than by encode: a header h, base64url-
\* encoded without fault, a second segment seg2, and an HMAC of the two as
\* alg a computes it under key k (empty when a is no HMAC name).
HandmadePart(h, seg2) == b64encode(dump(h), <<>>) \o <<Dot>> \o seg2
Handmade(h, seg2, k, a) ==
    HandmadePart(h, seg2) \o <<Dot>> \o signHMAC(HandmadePart(h, seg2), k, a, <<>>)

\* Second segments: a payload, a text that is no JSON, a text that is no
\* base64.
BrokenSegments == { b64encode(Bytes("{"), <<>>), Bytes("Q") }

\* Texts that are no token at all, or whose header is no base64 or no JSON.
Malformed ==
    { <<>>, Bytes("abc"), Bytes("abc.def"), Bytes("!!!!.e30."), Bytes("Q.e30."),
      Bytes("aW52YWxpZA.e30.") }

\* A caller holds a token that encode did not write.
Forge ==
    /\ pc = "idle"
    /\ \/ /\ token' \in Malformed
          /\ encAlg' = ""
          /\ encKey' = ""
          /\ payload' = JNull
       \/ \E h \in OddHeaders, p \in Payloads :
            /\ token' = Handmade(h, b64encode(dump(p), <<>>), "", "")
            /\ encAlg' = ""
            /\ encKey' = ""
            /\ payload' = p
       \/ \E a \in UnknownNames \cup {"none"}, p \in Payloads :
            /\ \/ token' = Handmade(MakeHeader(a), b64encode(dump(p), <<>>), "", a)
               \/ token' = HandmadePart(MakeHeader(a), b64encode(dump(p), <<>>))
                                \o <<Dot>> \o InvalidSignature
               \/ token' = Handmade(MakeHeader(a), b64encode(dump(p), <<>>),
                                    "secret", "HS256")
            /\ encAlg' = a
            /\ encKey' = ""
            /\ payload' = p
       \/ \E a \in HmacNames, seg2 \in BrokenSegments :
            /\ token' = Handmade(MakeHeader(a), seg2, "secret", a)
            /\ encAlg' = a
            /\ encKey' = "secret"
            /\ payload' = JNull
    /\ pc' = "forged"
    /\ origin' = "forge"
    /\ UNCHANGED <<pem, calls>>
    /\ UNCHANGED <<nonce, clean, decKey, accepted, theAlg, verified, trace,
                   result, b64in, b64out>>

\* The accepted sets a caller passes: none, the alg the token was made
\* with, and another one.
AcceptedSets ==
    { {}, {HeaderAlg(encAlg)},
      {IF HeaderAlg(encAlg) = "HS384" THEN "HS256" ELSE "HS384"} }

\* A caller runs decode(token, k, alg).
DecodeCall ==
    /\ pc \in {"encoded", "tampered", "forged"}
    /\ origin = "encode" => token # <<>>
    /\ \E k \in Keys, alg \in AcceptedSets :
        /\ decKey' = k
        /\ accepted' = alg
    /\ pc' = "shape"
    /\ trace' = <<>>
    /\ UNCHANGED <<pem, calls>>
    /\ UNCHANGED <<payload, encKey, encAlg, nonce, clean, token, origin,
                   theAlg, verified, result, b64in, b64out>>

\* Lines 308-318: the token must look like a token.
DecodeShape ==
    /\ pc = "shape"
    /\ trace' = Append(trace, "shape")
    /\ IF LooksLikeJwt(token)
       THEN pc' = "header" /\ UNCHANGED result
       ELSE pc' = "done" /\ result' = Returned(JNull)
    /\ UNCHANGED <<pem, calls>>
    /\ UNCHANGED <<payload, encKey, encAlg, nonce, clean, token, origin,
                   decKey, accepted, theAlg, verified, b64in, b64out>>

\* Lines 320-324: the header is decoded and parsed, its alg read.
DecodeHeader ==
    /\ pc = "header"
    /\ trace' = Append(trace, "header")
    /\ LET header == parse(b64decode(HeaderSegment(token)))
       IN  IF header = ParseError \/ ~HasStringAlg(header)
           THEN pc' = "done" /\ result' = Thrown /\ UNCHANGED theAlg
           ELSE pc' = "policy" /\ theAlg' = AlgOf(header) /\ UNCHANGED result
    /\ UNCHANGED <<pem, calls>>
    /\ UNCHANGED <<payload, encKey, encAlg, nonce, clean, token, origin,
                   decKey, accepted, verified, b64in, b64out>>

\* Lines 326-333: the two gates.
DecodePolicy ==
    /\ pc = "policy"
    /\ trace' = Append(trace, "policy")
    /\ LET next == AfterPolicy(NoneWithKey(theAlg, decKey)
                                \/ NotAccepted(theAlg, accepted))
       IN  /\ pc' = next
           /\ IF next = "done"
              THEN result' = Returned(JNull)
              ELSE UNCHANGED result
    /\ UNCHANGED <<pem, calls>>
    /\ UNCHANGED <<payload, encKey, encAlg, nonce, clean, token, origin,
                   decKey, accepted, theAlg, verified, b64in, b64out>>

\* Lines 335-353: the signature check of the declared alg.
DecodeVerify ==
    /\ pc = "verify"
    /\ \E ok \in BOOLEAN :
        /\ CASE Backend(theAlg) = "none" ->
                    /\ ok
                    /\ trace' = Append(trace, "noverify")
                    /\ verified' = FALSE
             [] Backend(theAlg) = "hmac" ->
                    /\ \E junk \in JunkTails :
                        ok = ~HmacRejects(SignatureSegment(token),
                                signHMAC(SignedPart(token), decKey, theAlg, junk))
                    /\ trace' = Append(trace, "signHMAC")
                    /\ verified' = ok
             [] Backend(theAlg) = "pem" ->
                    /\ ok = verifyPEM(SignedPart(token), SignatureSegment(token),
                                      decKey, theAlg)
                    /\ trace' = Append(trace, "verifyPEM")
                    /\ verified' = ok
        /\ pc' = AfterVerify(ok)
        /\ IF AfterVerify(ok) = "done"
           THEN result' = Returned(JNull)
           ELSE UNCHANGED result
    /\ UNCHANGED <<pem, calls>>
    /\ UNCHANGED <<payload, encKey, encAlg, nonce, clean, token, origin,
                   decKey, accepted, theAlg, b64in, b64out>>

\* Lines 355-360: the payload is decoded, parsed and returned.
DecodePayload ==
    /\ pc = "payload"
    /\ trace' = Append(trace, "payload")
    /\ LET p == parse(b64decode(PayloadSegment(token)))
       IN  result' = IF p = ParseError THEN Thrown ELSE Returned(p)
    /\ pc' = "done"
    /\ UNCHANGED <<pem, calls>>
    /\ UNCHANGED <<payload, encKey, encAlg, nonce, clean, token, origin,
                   decKey, accepted, theAlg, verified, b64in, b64out>>

\* The byte sequences given to the codec on its own.
ByteValues == {0, 65, 251, 255}
ByteSeqs == UNION {[1..n -> ByteValues] : n \in 0..MaxBytes}

\* detail::b64encode(data, len) on its own.  With nothing written the BIO's
\* buffer pointer is null and `string s{ buf->data }` has no defined result.
B64Encode ==
    /\ pc = "idle"
    /\ \E b \in ByteSeqs, junk \in JunkTails :
        /\ b64in' = b
        /\ b64out' = IF b = <<>>
                     THEN [kind |-> "fault", text |-> <<>>, bytes |-> <<>>]
                     ELSE [kind |-> "text", text |-> b64encode(b, junk), bytes |-> <<>>]
    /\ pc' = "b64encoded"
    /\ UNCHANGED <<pem, calls>>
    /\ UNCHANGED <<payload, encKey, encAlg, nonce, clean, token, origin, decKey,
                   accepted, theAlg, verified, trace, result>>

\* detail::b64decode of what b64encode returned.
B64Decode ==
    /\ pc = "b64encoded"
    /\ b64out.kind = "text"
    /\ b64out' = [kind |-> "bytes", text |-> b64out.text,
                  bytes |-> b64decode(b64out.text)]
    /\ pc' = "b64decoded"
    /\ UNCHANGED <<pem, calls>>
    /\ UNCHANGED <<payload, encKey, encAlg, nonce, clean, token, origin, decKey,
                   accepted, theAlg, verified, trace, result, b64in>>

----------------------------------------------------------------------------
(* signPEM and verifyPEM, step by step, with the handles they hold *)

\* A PEM private key encrypted under a passphrase, and the key it holds.
EncryptedKey == "ENCPRIV1"
DecryptedKey == "RSAPRIV1"

\* The key texts, names and signatures the two backends are called with.
\* HS256 is a name neither backend knows.
PemKeys == {"", "RSAPRIV1", "RSAPUB1", "ECPRIV1", "ECPUB1", EncryptedKey}
PemAlgs == {"RS256", "ES384", "HS256"}
PemStr == Bytes("e30.e30")
PemSigs ==
    { <<>>, InvalidSignature,
      b64encode(DigestSign(PrivateKey("RSAPRIV1"), "sha256", PemStr, 0), <<>>) }

\* What the two backends return: signPEM a text, empty on failure;
\* verifyPEM a boolean.
PemSigned(text) == [kind |-> "return", sig |-> text, ok |-> text # <<>>]
PemVerified(ok) == [kind |-> "return", sig |-> <<>>, ok |-> ok]
PemFailure(op) == IF op = "signPEM" THEN PemSigned(<<>>) ELSE PemVerified(FALSE)

\* A return statement: the result is set and the scope is left.
Leave(c, out) == [c EXCEPT !.pc = "leave", !.out = out]

\* The handles a call holds that have not been released.
StillLive(c) == {h \in c.acquired : c.freed[h] = 0}

\* A caller runs signPEM(str, key, alg) or verifyPEM(str, b64sig, key, alg).
PemCall ==
    /\ pem.pc \in {"idle", "returned"}
    /\ \E op \in {"signPEM", "verifyPEM"}, key \in PemKeys, alg \in PemAlgs :
        \E sig \in (IF op = "verifyPEM" THEN PemSigs ELSE {<<>>}) :
            pem' = [PemIdle EXCEPT !.pc = "digest", !.op = op, !.key = key,
                                   !.alg = alg, !.sig = sig,
                                   !.leaked = pem.leaked \cup StillLive(pem)]
    /\ UNCHANGED <<jwtVars, calls>>

\* Lines 134-154 and 210-230: the name selects the digest, or the call
\* returns.
PemSelectDigest ==
    /\ pem.pc = "digest"
    /\ pem' = IF PemDigest(pem.alg) = "null"
              THEN Leave(pem, PemFailure(pem.op))
              ELSE [pem EXCEPT !.evp = PemDigest(pem.alg),
                               !.pc = IF pem.op = "verifyPEM" THEN "sig"
                                      ELSE "bufkey"]
    /\ UNCHANGED <<jwtVars, calls>>

\* Lines 232-237: verifyPEM decodes the signature.
PemDecodeSignature ==
    /\ pem.pc = "sig"
    /\ pem' = IF b64decode(pem.sig) = <<>>
              THEN Leave(pem, PemFailure(pem.op))
              ELSE [pem EXCEPT !.pc = "bufkey"]
    /\ UNCHANGED <<jwtVars, calls>>

\* Lines 156-161 and 239-244: BIO_new_mem_buf yields a BIO or null; the
\* SCOPE_EXIT entry is pushed either way.
PemNewMemBuf ==
    /\ pem.pc = "bufkey"
    /\ \E got \in BOOLEAN :
        LET c == [pem EXCEPT !.onLeave = Append(@, "bufkey"),
                             !.acquired = IF got THEN @ \cup {"bufkey"} ELSE @]
        IN  pem' = IF got THEN [c EXCEPT !.pc = "readkey"]
                   ELSE Leave(c, PemFailure(pem.op))
    /\ UNCHANGED <<jwtVars, calls>>

\* Lines 164-169 and 247-252, once the PEM reader has come back with a key
\* or with null.
KeyRead(c, pkey) ==
    LET d == [c EXCEPT !.pkey = pkey,
                       !.onLeave = Append(@, "pkey"),
                       !.acquired = IF pkey # NoKey THEN @ \cup {"pkey"} ELSE @]
    IN  IF pkey = NoKey THEN Leave(d, PemFailure(c.op))
        ELSE [d EXCEPT !.pc = "mdctx"]

\* PEM_read_bio_PrivateKey meets an encrypted key: it needs a passphrase.
NeedsPassphrase(c) == c.op = "signPEM" /\ c.key = EncryptedKey

\* The key text is read: PEM_read_bio_PrivateKey in signPEM,
\* PEM_read_bio_PUBKEY in verifyPEM.
PemReadKey ==
    /\ pem.pc = "readkey"
    /\ ~NeedsPassphrase(pem)
    /\ pem' = KeyRead(pem, IF pem.op = "signPEM" THEN PrivateKey(pem.key)
                           ELSE PublicKey(pem.key))
    /\ UNCHANGED <<jwtVars, calls>>

\* Line 164 passes no callback and no passphrase, so OpenSSL's default
\* passphrase callback is used (line 163): it asks for the passphrase on
\* the terminal and waits for it, or fails at once where there is no
\* terminal to ask on.
PemAskPassphrase ==
    /\ pem.pc = "readkey"
    /\ NeedsPassphrase(pem)
    /\ \E terminal \in BOOLEAN :
        pem' = IF terminal THEN [pem EXCEPT !.pc = "prompt"]
               ELSE KeyRead(pem, NoKey)
    /\ UNCHANGED <<jwtVars, calls>>

\* Somebody at the terminal answers the prompt, with the passphrase of the
\* key or with something else.
PemPassphraseEntered ==
    /\ pem.pc = "prompt"
    /\ \E right \in BOOLEAN :
        pem' = KeyRead(pem, IF right THEN PrivateKey(DecryptedKey) ELSE NoKey)
    /\ UNCHANGED <<jwtVars, calls>>

\* Lines 171-176 and 254-255: EVP_MD_CTX_create yields a context or null.
\* signPEM returns on null; verifyPEM has no such test and goes on.
PemNewMdCtx ==
    /\ pem.pc = "mdctx"
    /\ \E got \in BOOLEAN :
        LET c == [pem EXCEPT !.onLeave = Append(@, "mdctx"),
                             !.acquired = IF got THEN @ \cup {"mdctx"} ELSE @]
        IN  pem' = IF ~got /\ pem.op = "signPEM"
                   THEN Leave(c, PemFailure(pem.op))
                   ELSE [c EXCEPT !.pc = "init"]
    /\ UNCHANGED <<jwtVars, calls>>

\* Lines 179-181 and 257-259: EVP_DigestSignInit / EVP_DigestVerifyInit.
PemInit ==
    /\ pem.pc = "init"
    /\ "mdctx" \in pem.acquired
    /\ \E ok \in BOOLEAN :
        pem' = IF ok THEN [pem EXCEPT !.pc = "update"]
               ELSE Leave(pem, PemFailure(pem.op))
    /\ UNCHANGED <<jwtVars, calls>>

\* Line 257 with a null context: EVP_DigestVerifyInit is handed a null
\* pointer, which it may report as a failure or dereference; the call
\* returns false or the process ends there.
PemInitNullContext ==
    /\ pem.pc = "init"
    /\ "mdctx" \notin pem.acquired
    /\ \E reported \in BOOLEAN :
        pem' = IF reported THEN Leave(pem, PemFailure(pem.op))
               ELSE [pem EXCEPT !.pc = "crashed"]
    /\ UNCHANGED <<jwtVars, calls>>

\* Lines 184-186 and 261-263: the message is fed to the digest.
PemUpdate ==
    /\ pem.pc = "update"
    /\ \E ok \in BOOLEAN :
        pem' = IF ok THEN [pem EXCEPT !.pc = "final"]
               ELSE Leave(pem, PemFailure(pem.op))
    /\ UNCHANGED <<jwtVars, calls>>

\* Lines 189-203: signPEM asks for the signature's size and then for the
\* signature, and returns its base64url text.
PemSignFinal ==
    /\ pem.pc = "final"
    /\ pem.op = "signPEM"
    /\ \E ok \in BOOLEAN, junk \in JunkTails :
        \E n \in (IF pem.pkey.type = "EC" THEN Nonces ELSE {0}) :
            pem' = Leave(pem,
                    IF ok
                    THEN PemSigned(b64encode(
                            DigestSign(pem.pkey, pem.evp, PemStr, n), junk))
                    ELSE PemFailure(pem.op))
    /\ UNCHANGED <<jwtVars, calls>>

\* Lines 265-269: verifyPEM checks the decoded signature.
PemVerifyFinal ==
    /\ pem.pc = "final"
    /\ pem.op = "verifyPEM"
    /\ pem' = Leave(pem, PemVerified(
                DigestVerify(pem.pkey, pem.evp, PemStr, b64decode(pem.sig))))
    /\ UNCHANGED <<jwtVars, calls>>

\* ~OnLeave running only the entry pushed last.
OnLeaveLastOnly(fns) ==
    IF fns = <<>> THEN <<>> ELSE <<fns[Len(fns)]>>

\* ~OnLeave (lines 21-25): the entries that are run, in push order.
OnLeave(fns) == [i \in 1..Len(fns) |-> fns[i]]

\* The scope is left: ~OnLeave runs the SCOPE_EXIT entries, each of which
\* releases its handle if the handle is not null.
PemLeave ==
    /\ pem.pc = "leave"
    /\ LET run == OnLeave(pem.onLeave)
       IN  pem' = [pem EXCEPT
                    !.freed = [h \in Handles |->
                        @[h] + Cardinality({i \in 1..Len(run) :
                                    run[i] = h /\ h \in pem.acquired})],
                    !.pc = "returned"]
    /\ UNCHANGED <<jwtVars, calls>>

PemNext ==
    \/ PemCall
    \/ PemSelectDigest
    \/ PemDecodeSignature
    \/ PemNewMemBuf
    \/ PemReadKey
    \/ PemAskPassphrase
    \/ PemPassphraseEntered
    \/ PemNewMdCtx
    \/ PemInit
    \/ PemInitNullContext
    \/ PemUpdate
    \/ PemSignFinal
    \/ PemVerifyFinal
    \/ PemLeave

PemSpec == Init /\ [][PemNext]_vars

----------------------------------------------------------------------------
(* encode and decode called from several threads *)

\* jwt::decode as a function of its arguments, when no b64encode call reads
\* past its buffer.
decode(jwt, key, alg) ==
    IF ~LooksLikeJwt(jwt) THEN Returned(JNull)
    ELSE LET header == parse(b64decode(HeaderSegment(jwt)))
         IN  IF header = ParseError \/ ~HasStringAlg(header) THEN Thrown
             ELSE LET a == AlgOf(header)
                      ok == CASE Backend(a) = "none" -> TRUE
                              [] Backend(a) = "hmac" ->
                                    ~HmacRejects(SignatureSegment(jwt),
                                        signHMAC(SignedPart(jwt), key, a, <<>>))
                              [] Backend(a) = "pem" ->
                                    verifyPEM(SignedPart(jwt),
                                              SignatureSegment(jwt), key, a)
                      p == parse(b64decode(PayloadSegment(jwt)))
                  IN  IF NoneWithKey(a, key) \/ NotAccepted(a, alg)
                      THEN Returned(JNull)
                      ELSE IF AfterVerify(ok) = "done" THEN Returned(JNull)
                      ELSE IF p = ParseError THEN Thrown
                      ELSE Returned(p)

\* The arguments the threads call with.
ParKeys == {"", "secret"}
ParAlgs == {"none", "HS256"}
ParAccepted == { {}, {"HS256"} }
ParTokens ==
    { encode(JObj(<< <<"a", JNum(1)>> >>), "secret", "HS256", NoJunk, 0),
      encode(JObj(<< <<"a", JNum(1)>> >>), "", "none", NoJunk, 0),
      Bytes("abc.def") }

\* The tails a b64encode call of c may pick up: one call of encode or
\* decode reads at most MaxJunk bytes past its buffers.
TailsLeft(c) == {junk \in JunkTails : Len(c.read) + Len(junk) <= MaxJunk}

\* Thread self goes on with c; nothing else changes.
Becomes(self, c) ==
    /\ calls' = [calls EXCEPT ![self] = c]
    /\ UNCHANGED <<jwtVars, pem>>

\* Thread self calls encode(p, key, alg).
ParEncodeCall(self) ==
    /\ calls[self].pc = "idle"
    /\ \E p \in Payloads, key \in ParKeys, alg \in ParAlgs :
        Becomes(self, [CallIdle EXCEPT !.pc = "encodeHeader", !.op = "encode",
                                       !.p = p, !.key = key, !.alg = alg])

\* Lines 274-279: the header is built and encoded.
ParEncodeHeader(self) ==
    LET c == calls[self]
    IN  /\ c.pc = "encodeHeader"
        /\ \E junk \in TailsLeft(c) :
            Becomes(self, [c EXCEPT
                !.header = b64encode(dump(MakeHeader(HeaderAlg(c.alg))), junk),
                !.read = @ \o junk,
                !.pc = "encodePayload"])

\* Lines 282-283: the payload is encoded.
ParEncodePayload(self) ==
    LET c == calls[self]
    IN  /\ c.pc = "encodePayload"
        /\ \E junk \in TailsLeft(c) :
            Becomes(self, [c EXCEPT !.body = b64encode(dump(c.p), junk),
                                    !.read = @ \o junk,
                                    !.pc = "encodeSign"])

\* Lines 286-304: the two segments are signed and the token is returned.
ParEncodeSign(self) ==
    LET c == calls[self]
        a == HeaderAlg(c.alg)
        encodedToken == c.header \o <<Dot>> \o c.body
    IN  /\ c.pc = "encodeSign"
        /\ \E junk \in TailsLeft(c) :
            LET signature ==
                    CASE Backend(a) = "none" -> <<>>
                      [] Backend(a) = "hmac" ->
                            signHMAC(encodedToken, c.key, a, junk)
                      [] Backend(a) = "pem" ->
                            signPEM(encodedToken, c.key, a, 0, junk)
            IN  /\ Backend(a) = "none" => junk = <<>>
                /\ Becomes(self, [c EXCEPT
                        !.token = IF EncodeFails(a, signature) THEN <<>>
                                  ELSE encodedToken \o <<Dot>> \o signature,
                        !.read = @ \o junk,
                        !.pc = "done"])

\* Thread self calls decode(jwt, key, accepted).
ParDecodeCall(self) ==
    /\ calls[self].pc = "idle"
    /\ \E jwt \in ParTokens, key \in ParKeys, alg \in ParAccepted :
        Becomes(self, [CallIdle EXCEPT !.pc = "shape", !.op = "decode",
                                       !.jwt = jwt, !.key = key,
                                       !.accepted = alg])

\* Lines 308-318.
ParDecodeShape(self) ==
    LET c == calls[self]
    IN  /\ c.pc = "shape"
        /\ Becomes(self, IF LooksLikeJwt(c.jwt)
                         THEN [c EXCEPT !.pc = "header"]
                         ELSE [c EXCEPT !.pc = "done", !.out = Returned(JNull)])

\* Lines 320-324.
ParDecodeHeader(self) ==
    LET c == calls[self]
        header == parse(b64decode(HeaderSegment(c.jwt)))
    IN  /\ c.pc = "header"
        /\ Becomes(self, IF header = ParseError \/ ~HasStringAlg(header)
                         THEN [c EXCEPT !.pc = "done", !.out = Thrown]
                         ELSE [c EXCEPT !.pc = "policy",
                                        !.theAlg = AlgOf(header)])

\* Lines 326-333.
ParDecodePolicy(self) ==
    LET c == calls[self]
        next == AfterPolicy(NoneWithKey(c.theAlg, c.key)
                            \/ NotAccepted(c.theAlg, c.accepted))
    IN  /\ c.pc = "policy"
        /\ Becomes(self, IF next = "done"
                         THEN [c EXCEPT !.pc = "done", !.out = Returned(JNull)]
                         ELSE [c EXCEPT !.pc = next])

\* Lines 335-353.
ParDecodeVerify(self) ==
    LET c == calls[self]
    IN  /\ c.pc = "verify"
        /\ \E junk \in TailsLeft(c) :
            LET ok ==
                    CASE Backend(c.theAlg) = "none" -> TRUE
                      [] Backend(c.theAlg) = "hmac" ->
                            ~HmacRejects(SignatureSegment(c.jwt),
                                signHMAC(SignedPart(c.jwt), c.key, c.theAlg, junk))
                      [] Backend(c.theAlg) = "pem" ->
                            verifyPEM(SignedPart(c.jwt), SignatureSegment(c.jwt),
                                      c.key, c.theAlg)
            IN  /\ Backend(c.theAlg) # "hmac" => junk = <<>>
                /\ Becomes(self, IF AfterVerify(ok) = "done"
                                 THEN [c EXCEPT !.pc = "done",
                                                !.read = @ \o junk,
                                                !.out = Returned(JNull)]
                                 ELSE [c EXCEPT !.pc = AfterVerify(ok),
                                                !.read = @ \o junk])

\* Lines 355-360.
ParDecodePayload(self) ==
    LET c == calls[self]
        p == parse(b64decode(PayloadSegment(c.jwt)))
    IN  /\ c.pc = "payload"
        /\ Becomes(self, [c EXCEPT
                !.pc = "done",
                !.out = IF p = ParseError THEN Thrown ELSE Returned(p)])

\* Any thread takes its next step.
ParNext ==
    \E self \in Procs :
        \/ ParEncodeCall(self)
        \/ ParEncodeHeader(self)
        \/ ParEncodePayload(self)
        \/ ParEncodeSign(self)
        \/ ParDecodeCall(self)
        \/ ParDecodeShape(self)
        \/ ParDecodeHeader(self)
        \/ ParDecodePolicy(self)
        \/ ParDecodeVerify(self)
        \/ ParDecodePayload(self)

ParSpec == Init /\ [][ParNext]_vars

Next ==
    \/ Encode
    \/ Tamper
    \/ Forge
    \/ DecodeCall
    \/ DecodeShape
    \/ DecodeHeader
    \/ DecodePolicy
    \/ DecodeVerify
    \/ DecodePayload
    \/ B64Encode
    \/ B64Decode

Spec == Init /\ [][Next]_vars

----------------------------------------------------------------------------
(* Properties *)

InTrace(op) == \E i \in 1..Len(trace) : trace[i] = op

ReturnedNull == result = Returned(JNull)

\* The key that checks what key k signed under alg a: the same secret for
\* an HMAC name, the public half of the pair for an RSA or EC name.
ValidKeyPair(a, k, kv) ==
    \/ a \in HmacNames /\ kv = k
    \/ a \in RsaNames /\ k = "RSAPRIV1" /\ kv = "RSAPUB1"
    \/ a \in EcNames /\ k = "ECPRIV1" /\ kv = "ECPUB1"

\* The unpadded base64url text of a byte sequence.
Base64Url(data) ==
    replaceAll(replaceAll(StripTrailingEq(Base64Std(data)), Plus, Minus),
               Slash, Underscore)

\* The presented signature is one the declared algorithm yields for the
\* signed part under the supplied key.
GenuineSignature ==
    CASE Backend(theAlg) = "hmac" ->
            /\ HmacDigest(theAlg) # "null"
            /\ \E junk \in JunkTails :
                SignatureSegment(token) =
                    b64encode(HMAC(HmacDigest(theAlg), decKey, SignedPart(token)), junk)
      [] Backend(theAlg) = "pem" ->
            /\ PemDigest(theAlg) # "null"
            /\ PublicKey(decKey) # NoKey
            /\ DigestVerify(PublicKey(decKey), PemDigest(theAlg),
                            SignedPart(token), b64decode(SignatureSegment(token)))
      [] OTHER -> FALSE

\* C1: decoding what encode returned for a supported algorithm and a valid
\* key, with the matching key and with the accepted set {a} or the empty
\* set, returns the payload.
C1_RoundTrip ==
    ( /\ pc = "done"
      /\ origin = "encode"
      /\ encAlg \in SupportedNames
      /\ ValidKeyPair(encAlg, encKey, decKey)
      /\ accepted \in { {}, {encAlg} } )
    => result = Returned(payload)

\* C2: for a declared alg other than "none", decode reaches the payload,
\* and returns a non-null value, only after the signature check of the
\* declared algorithm has run and passed with the supplied key.
C2_VerifiedBeforePayload ==
    ( /\ Backend(theAlg) # "none"
      /\ \/ pc = "payload"
         \/ InTrace("payload")
         \/ (pc = "done" /\ result.kind = "return" /\ result.val # JNull) )
    => /\ verified
       /\ GenuineSignature
       /\ InTrace("signHMAC") \/ InTrace("verifyPEM")

C2_Witness ==
    /\ pc = "done"
    /\ theAlg \in SupportedNames
    /\ verified
    /\ InTrace("payload")
    /\ result.kind = "return" /\ result.val # JNull

\* C3: decode returns null whenever the accepted set is not empty and the
\* alg the header declares is not in it.
C3_AlgorithmConfusionGuard ==
    ( /\ pc = "done"
      /\ InTrace("policy")
      /\ accepted # {}
      /\ theAlg \notin accepted )
    => ReturnedNull

\* An HS256 token with a genuine signature, decoded with its key and
\* accepted = {"HS384"}.
C3_Witness ==
    /\ pc = "done"
    /\ theAlg = "HS256"
    /\ accepted = {"HS384"}
    /\ origin = "encode" /\ clean /\ decKey = encKey
    /\ GenuineSignature
    /\ payload # JNull
    /\ ReturnedNull

\* C4: a token that declares "none" is rejected whenever the key is not
\* empty, whatever the accepted set.
C4_NoneWithKeyGuard ==
    ( /\ pc = "done"
      /\ InTrace("policy")
      /\ theAlg = "none"
      /\ decKey # "" )
    => ReturnedNull

C4_Witness ==
    /\ pc = "done"
    /\ theAlg = "none"
    /\ decKey = "secret"
    /\ accepted = {"none"}
    /\ origin = "encode" /\ clean
    /\ payload # JNull
    /\ ReturnedNull

\* C5: a token of encode whose signature segment was replaced by a
\* different text decodes to null with the right key.
C5_TamperSensitivity ==
    ( /\ pc = "done"
      /\ origin = "tamper"
      /\ clean
      /\ encAlg \in SupportedNames
      /\ ValidKeyPair(encAlg, encKey, decKey) )
    => ReturnedNull

\* C6: decode ends by returning the claims or null; nothing is thrown.
\* Stated for the tokens that owe nothing to a stray byte read by encode:
\* a handmade token, or the token of an encode that read none.
C6_TwoOutcomes ==
    (pc = "done" /\ (origin = "forge" \/ clean)) => result.kind = "return"

\* C7: a name outside the registry makes encode return the empty result,
\* and makes decode of a token that declares it return null.
C7_ClosedNameSpace ==
    /\ (pc = "encoded" /\ encAlg \in UnknownNames) => token = <<>>
    /\ (pc = "done" /\ InTrace("policy") /\ theAlg \in UnknownNames)
            => ReturnedNull

\* A token declaring HS999 reaches the HMAC check with HS999 accepted.
C7_Witness ==
    /\ pc = "done"
    /\ theAlg = "HS999"
    /\ accepted = {"HS999"}
    /\ InTrace("signHMAC")
    /\ payload # JNull
    /\ ReturnedNull

\* C8: an HS* token of encode(p, k, a) decodes to null with every other
\* key, and to p with k.
C8_WrongKey ==
    ( /\ pc = "done"
      /\ origin = "encode"
      /\ encAlg \in HmacNames )
    => /\ decKey # encKey => ReturnedNull
       /\ (decKey = encKey /\ accepted \in { {}, {encAlg} })
              => result = Returned(payload)

\* C9: b64encode returns the unpadded base64url text of its input, and
\* b64decode of that text is the input.
C9_Base64RoundTrip ==
    /\ pc = "b64encoded" =>
            /\ b64out.kind = "text"
            /\ b64out.text = Base64Url(b64in)
            /\ \A i \in 1..Len(b64out.text) :
                    b64out.text[i] \notin {Eq, Plus, Slash}
    /\ pc = "b64decoded" => b64out.bytes = b64in

\* C10: a token of encode is base64url(header) '.' base64url(payload) '.'
\* signature, the header carrying typ "JWT" and the alg argument, HS256
\* for the empty argument; the empty argument and "HS256" give the same
\* token.
C10_TokenShape ==
    (pc = "encoded" /\ token # <<>>) =>
        /\ LooksLikeJwt(token)
        /\ Dot \notin {SignatureSegment(token)[i] :
                            i \in 1..Len(SignatureSegment(token))}
        /\ HeaderSegment(token) = Base64Url(dump(MakeHeader(HeaderAlg(encAlg))))
        /\ PayloadSegment(token) = Base64Url(dump(payload))
        /\ encAlg = "" => token = encode(payload, encKey, "HS256", NoJunk, 0)

\* The positions a call of decode is at.
DecodePcs == {"shape", "header", "policy", "verify", "payload", "done"}

\* The number of periods in a text.
CountPeriods(s) == Cardinality({i \in 1..Len(s) : s[i] = Dot})

\* C11: encode with alg "none" never fails, invokes no signing operation
\* and returns a token whose signature segment is empty; decoding that
\* token with the empty key returns the payload when the accepted set is
\* empty or contains "none".
C11_UnsignedTokens ==
    /\ (pc = "encoded" /\ encAlg = "none") =>
            /\ token # <<>>
            /\ trace = <<>>
            /\ LooksLikeJwt(token)
            /\ SignatureSegment(token) = <<>>
    /\ ( /\ pc = "done"
         /\ origin = "encode"
         /\ encAlg = "none"
         /\ decKey = ""
         /\ accepted = {} \/ "none" \in accepted )
       => result = Returned(payload)

\* C12: for the empty token and for every token with fewer than two
\* periods decode returns null, without throwing, after the shape check
\* alone: the header is not decoded, nothing is signed or verified.
C12_ShapeCheck ==
    (pc \in DecodePcs \ {"shape"} /\ CountPeriods(token) < 2)
    => /\ pc = "done"
       /\ trace = <<"shape">>
       /\ ReturnedNull

\* A text with one period, decoded with a key and a non-empty accepted set.
C12_Witness ==
    /\ pc = "done"
    /\ CountPeriods(token) = 1
    /\ decKey = "secret"
    /\ accepted # {}
    /\ trace = <<"shape">>
    /\ ReturnedNull

\* The gates of lines 327 and 331, as the source states them.
GateRejects ==
    \/ theAlg = "none" /\ decKey # ""
    \/ accepted # {} /\ theAlg \notin accepted

\* The operations of decode that come after the gates.
AfterGates == {"noverify", "signHMAC", "verifyPEM", "payload"}

\* C16: decode evaluates the gates after the header is decoded and before
\* any signature operation, and a token either gate rejects is answered
\* with null: signHMAC and verifyPEM are not invoked, the key reaches no
\* backend, the payload segment is not decoded.
C16_GateOrdering ==
    pc \in DecodePcs =>
        /\ \A i \in 1..Len(trace) :
                trace[i] \in AfterGates =>
                    \E j \in 1..(i - 1) :
                        /\ trace[j] = "policy"
                        /\ \E k \in 1..(j - 1) : trace[k] = "header"
        /\ (InTrace("policy") /\ GateRejects) =>
                /\ pc = "done"
                /\ trace = <<"shape", "header", "policy">>
                /\ ReturnedNull

\* An RS* or ES* token with a genuine signature and its public key, turned
\* away by the accepted set.
C16_Witness ==
    /\ pc = "done"
    /\ theAlg \in PemNames
    /\ GenuineSignature
    /\ GateRejects
    /\ trace = <<"shape", "header", "policy">>
    /\ ReturnedNull

FamilyMismatch(a, pkey) ==
    \/ a \in RsaNames /\ pkey.type = "EC"
    \/ a \in EcNames /\ pkey.type = "RSA"

\* C18: encode under an RS* name with an EC private key, or under an ES*
\* name with an RSA private key, fails; decode of a token that declares
\* RS* does not succeed with an EC public key, nor ES* with an RSA one.
C18_FamilyBinding ==
    /\ (pc = "encoded" /\ FamilyMismatch(encAlg, PrivateKey(encKey)))
            => token = <<>>
    /\ ( /\ pc = "done"
         /\ InTrace("verifyPEM")
         /\ FamilyMismatch(theAlg, PublicKey(decKey)) )
       => ReturnedNull

\* C13: no call waits for external input; signPEM with a passphrase-
\* encrypted private key asks for no passphrase and returns the empty
\* result.
C13_NoBlocking ==
    /\ pem.pc # "prompt"
    /\ (pem.pc = "returned" /\ NeedsPassphrase(pem))
            => pem.out = PemFailure("signPEM")

\* C15: when signPEM or verifyPEM returns, every handle the call acquired
\* has been released exactly once and no other has been released; no
\* handle of an earlier call is live.
C15_HandleLifetime ==
    /\ pem.pc = "returned" =>
            \A h \in Handles :
                pem.freed[h] = IF h \in pem.acquired THEN 1 ELSE 0
    /\ \A h \in Handles : pem.freed[h] <= 1
    /\ pem.leaked = {}

\* signPEM gets the key buffer and the key but no digest context, and
\* returns the empty result.
C15_Witness ==
    /\ pem.pc = "returned"
    /\ pem.op = "signPEM"
    /\ pem.acquired = {"bufkey", "pkey"}
    /\ pem.onLeave = <<"bufkey", "pkey", "mdctx">>
    /\ pem.freed = [h \in Handles |-> IF h = "mdctx" THEN 0 ELSE 1]
    /\ pem.out = PemFailure("signPEM")

\* C14: whatever the interleaving, a call of encode or decode reads
\* nothing but its own arguments and locals, and returns what it returns
\* on the same arguments when it runs alone.
C14_Independence ==
    \A self \in Procs :
        LET c == calls[self]
        IN  /\ c.read = <<>>
            /\ (c.pc = "done" /\ c.op = "encode")
                    => c.token = encode(c.p, c.key, c.alg, NoJunk, 0)
            /\ (c.pc = "done" /\ c.op = "decode")
                    => c.out = decode(c.jwt, c.key, c.accepted)

====
